---------------------------- MODULE Spec2Model ----------------------------
(***************************************************************************)
(* Folder inventory and SFTP report transfer (byeol-bit/folder-monitoring). *)
(*                                                                         *)
(* These specifications share the variables of this module:                *)
(*   SpecScan   the three directory scanners applied to bounded trees      *)
(*   SpecLatest the two getLatestModifiedFile variants on flat listings    *)
(*   Spec       one run of the config-driven transfer program              *)
(*   SpecEnsure one call of ensureRemoteDirectory                          *)
(*   SpecInteractive  the interactive transfer program and its runs        *)
(*   SpecStamp  the report filenames of two runs                           *)
(*   FairSpec   Spec with every pending event delivered                    *)
(*   SpecApi    one GET request to the folder-info route                   *)
(***************************************************************************)
EXTENDS Integers, Sequences, FiniteSets, TLC

VARIABLES
    tree,        \* the directory tree found at the scanned path
    scanner,     \* which scan function produced `result` ("none": not yet)
    result,      \* what the scan returned: [raised, info, statted]
    cfg,         \* the contents of config.json as the run finds it
    pc,          \* position of startTransfer / transferFolderInfo
    folderInfo,  \* the FolderInfo tree held by transferFolderInfo
    localFile,   \* the local report file: "none", "present", "deleted"
    conn,        \* the ssh2 Client: "none","connecting","ready","ending","closed"
    sftp,        \* the conn.sftp request: "none", "requested", "open", "failed"
    ws,          \* remote write stream: "none", "open", "errored", "closed"
    rs,          \* local read stream: "none", "piping", "ended", "errored"
    endCalls,    \* number of conn.end() calls made so far
    errs,        \* what has been logged with console.error
    hist,        \* observations of the event order, kept for the properties
    exitCode,    \* <<>> while the process runs, then <<0>> or <<1>>
    trace,       \* the calls made by the run, in order
    mk,          \* one call of ensureRemoteDirectory: path, position, mkdirs
    inter,       \* the interactive program: prompt position and its runs
    stamp,       \* report filenames computed at the start times of runs
    http         \* one request to the folder-info route and its response

scanVars == <<tree, scanner, result>>
runVars == <<cfg, pc, folderInfo, localFile, conn, sftp, ws, rs, endCalls, errs,
             hist, exitCode, trace>>
\* the state of the parts exercised by specifications of their own
sideVars == <<mk, inter, stamp, http>>
vars == <<tree, scanner, result, cfg, pc, folderInfo, localFile, conn, sftp, ws,
          rs, endCalls, errs, hist, exitCode, trace, mk, inter, stamp,
          http>>

----------------------------------------------------------------------------
(* Bounds of the model.                                                    *)

\* most entries in the listing of the scanned root directory
MaxEntries == 2
\* most entries of one tree whose stat or listing fails
MaxFailures == 1

\* most entries in a listing given to getLatestModifiedFile alone
MaxListing == 3

\* entry names tried; "Windows" is restricted for collectFolderInfo only,
\* "$RECYCLE.BIN" for every scanner, "windows" and "a" for none
ScanNames == {"a", "Windows", "windows", "$RECYCLE.BIN"}
\* <<size in bytes, mtime in milliseconds>> of the regular files of a tree
FileShapes == {<<1, 1500>>, <<2, 1000>>}
\* the size stat reports for a directory itself (0 on NTFS, a block elsewhere)
DirSizes == {0, 4}

\* modification instants (milliseconds) tried for getLatestModifiedFile
LatestMtimes == {1000, 1300, 1500, 2000}

RootPath == <<"root">>

----------------------------------------------------------------------------
(* The filesystem as the scanners see it.                                  *)
(* A directory is [exists, listable, entries]; an entry is                 *)
(* [name, kind, access, size, mtime, dir].  access says in which pass a    *)
(* stat of the entry fails: the aggregation loop ("scan") or the           *)
(* getLatestModifiedFile loop ("latest").                                  *)

NoDir == [exists |-> TRUE, listable |-> TRUE, entries |-> <<>>]
UnlistableDir == [exists |-> TRUE, listable |-> FALSE, entries |-> <<>>]
MissingDir == [exists |-> FALSE, listable |-> FALSE, entries |-> <<>>]

FileEntry(n, sh, a) ==
    [name |-> n, kind |-> "file", access |-> a, size |-> sh[1], mtime |-> sh[2],
     dir |-> NoDir]

DirEntry(n, a, d) ==
    [name |-> n, kind |-> "dir", access |-> a, size |-> 0, mtime |-> 0, dir |-> d]

Dir(es) == [exists |-> TRUE, listable |-> TRUE, entries |-> es]

FileAccess == {"ok", "failScan", "failLatest", "failBoth"}
DirAccess == {"ok", "failBoth"}

\* fs.statSync / fs.promises.stat of an entry succeeds in the given pass
StatOk(item, pass) ==
    IF pass = "scan" THEN item.access \in {"ok", "failLatest"}
    ELSE item.access \in {"ok", "failScan"}

RECURSIVE SeqSum(_)
SeqSum(s) == IF s = <<>> THEN 0 ELSE Head(s) + SeqSum(Tail(s))

Last(s) == s[Len(s)]

\* path.join(folderPath, item)
PathJoin(path, item) == Append(path, item)

----------------------------------------------------------------------------
(* RESTRICTED_FOLDERS of the transfer scripts and of folderUtils.          *)

RESTRICTED_FOLDERS ==
    {"Recovery", "System Volume Information", "$RECYCLE.BIN", "Config.Msi",
     "Documents and Settings", "Program Files", "Program Files (x86)",
     "ProgramData", "Windows", "Windows.old"}

RESTRICTED_FOLDERS_UTILS == {"$RECYCLE.BIN", "System Volume Information"}

----------------------------------------------------------------------------
(* getLatestModifiedFile, both variants.  A FileInfo is                    *)
(* [name, size, lastModified]; "null" is the empty sequence, a found file  *)
(* the one-element sequence.                                               *)

\* formatDate: "yyyy-mm-dd HH:mm:ss" of a Date; the milliseconds are dropped.
\* The string is represented by the number of whole seconds it spells.
formatDate(ms) == ms \div 1000

\* new Date("yyyy-mm-dd HH:mm:ss"): the instant at the start of that second
ParseDate(str) == str * 1000

\* the update test of the formatted-string variant (folderUtils.ts:150)
NewerThanString(item, latest) ==
    \/ latest = <<>>
    \/ item.mtime > ParseDate(latest[1].lastModified)

NewerThanDate(item, latest) ==
    \/ latest = <<>>
    \/ item.mtime > latest[1].lastModified

RECURSIVE LatestLoopString(_, _, _)
LatestLoopString(items, i, latest) ==
    IF i > Len(items) THEN latest
    ELSE LET item == items[i] IN
         IF StatOk(item, "latest") /\ item.kind = "file" /\ NewerThanString(item, latest)
         THEN LatestLoopString(items, i + 1,
                  <<[name |-> item.name, size |-> item.size,
                     lastModified |-> formatDate(item.mtime)]>>)
         ELSE LatestLoopString(items, i + 1, latest)

RECURSIVE LatestLoopDate(_, _, _)
LatestLoopDate(items, i, latest) ==
    IF i > Len(items) THEN latest
    ELSE LET item == items[i] IN
         IF StatOk(item, "latest") /\ item.kind = "file" /\ NewerThanDate(item, latest)
         THEN LatestLoopDate(items, i + 1,
                  <<[name |-> item.name, size |-> item.size,
                     lastModified |-> item.mtime]>>)
         ELSE LatestLoopDate(items, i + 1, latest)

\* formatted-string variant (lastModified: string)
getLatestModifiedFile(dir) ==
    IF ~dir.exists \/ ~dir.listable THEN <<>>
    ELSE LatestLoopString(dir.entries, 1, <<>>)

\* Date variant (lastModified: Date)
getLatestModifiedFileDate(dir) ==
    IF ~dir.exists \/ ~dir.listable THEN <<>>
    ELSE LatestLoopDate(dir.entries, 1, <<>>)

\* the paths getLatestModifiedFile passes to fs.statSync
LatestStatted(dir, path) ==
    IF ~dir.exists \/ ~dir.listable THEN {}
    ELSE {PathJoin(path, dir.entries[i].name) : i \in 1..Len(dir.entries)}

----------------------------------------------------------------------------
(* collectFolderInfo of the transfer scripts.  withLatest tells the        *)
(* config-driven script (which adds latestFile) from the interactive one:  *)
(* "none" for the interactive script, "string" or "Date" for the           *)
(* config-driven script importing the getLatestModifiedFile that returns   *)
(* lastModified as a formatted string or as a Date.                        *)
(* The value is [raised, info, statted]: the FolderInfo returned and the   *)
(* set of paths handed to stat on the way.                                 *)

NewInfo(path) ==
    [path |-> path, size |-> 0, fileCount |-> 0, subFolders |-> <<>>,
     latestFile |-> <<>>]

\* AddSubFolder with a slip: a subfolder in which no file was counted is
\* left out of subFolders
AddSubFolderUnlessEmpty(info, sub) ==
    IF sub.fileCount = 0 THEN info
    ELSE [info EXCEPT !.subFolders = Append(@, sub),
                      !.size = @ + sub.size,
                      !.fileCount = @ + sub.fileCount]

AddSubFolder(info, sub) ==
    [info EXCEPT !.subFolders = Append(@, sub),
                 !.size = @ + sub.size,
                 !.fileCount = @ + sub.fileCount]

AddFile(info, item) ==
    [info EXCEPT !.size = @ + item.size, !.fileCount = @ + 1]

RECURSIVE collectFolderInfo(_, _, _)
RECURSIVE CollectLoop(_, _, _, _, _)

CollectLoop(items, i, path, acc, withLatest) ==
    IF i > Len(items) THEN acc
    ELSE LET item == items[i]
             fullPath == PathJoin(path, item.name)
             seen == acc.statted \cup {fullPath}
         IN
         IF item.name \in RESTRICTED_FOLDERS
         THEN CollectLoop(items, i + 1, path, acc, withLatest)
         ELSE IF ~StatOk(item, "scan")
         THEN CollectLoop(items, i + 1, path, [acc EXCEPT !.statted = seen], withLatest)
         ELSE IF item.kind = "dir"
         THEN LET sub == collectFolderInfo(item.dir, fullPath, withLatest) IN
              CollectLoop(items, i + 1, path,
                  [acc EXCEPT !.info = AddSubFolder(@, sub.info),
                              !.statted = seen \cup sub.statted],
                  withLatest)
         ELSE CollectLoop(items, i + 1, path,
                  [acc EXCEPT !.info = AddFile(@, item), !.statted = seen],
                  withLatest)

collectFolderInfo(dir, path, withLatest) ==
    LET start == [raised |-> FALSE, info |-> NewInfo(path), statted |-> {}] IN
    IF ~dir.exists \/ ~dir.listable THEN start
    ELSE LET done == CollectLoop(dir.entries, 1, path, start, withLatest) IN
         IF withLatest = "none" THEN done
         ELSE [done EXCEPT !.info.latestFile =
                               IF withLatest = "Date"
                               THEN getLatestModifiedFileDate(dir)
                               ELSE getLatestModifiedFile(dir),
                           !.statted = @ \cup LatestStatted(dir, path)]

----------------------------------------------------------------------------
(* getFolderInfo of folderUtils.  dsize is the size stat reports for a     *)
(* directory.                                                              *)

NewUtilsInfo(path, dsize) ==
    [path |-> path, size |-> dsize, folderCount |-> 0, fileCount |-> 0,
     subFolders |-> <<>>]

AddUtilsFile(info, item) ==
    [info EXCEPT !.fileCount = @ + 1, !.size = @ + item.size]

RECURSIVE getFolderInfo(_, _, _)
RECURSIVE GetLoop(_, _, _, _, _)

GetLoop(items, i, path, acc, dsize) ==
    IF i > Len(items) THEN acc
    ELSE LET item == items[i]
             itemPath == PathJoin(path, item.name)
             seen == acc.statted \cup {itemPath}
         IN
         IF item.name \in RESTRICTED_FOLDERS_UTILS
         THEN GetLoop(items, i + 1, path, acc, dsize)
         ELSE IF ~StatOk(item, "scan")
         THEN GetLoop(items, i + 1, path, [acc EXCEPT !.statted = seen], dsize)
         ELSE IF item.kind = "dir"
         THEN LET sub == getFolderInfo(item.dir, itemPath, dsize)
                  counted == [acc.info EXCEPT !.folderCount = @ + 1]
              IN
              IF sub.raised
              THEN GetLoop(items, i + 1, path,
                       [acc EXCEPT !.info = counted,
                                   !.statted = seen \cup sub.statted], dsize)
              ELSE GetLoop(items, i + 1, path,
                       [acc EXCEPT !.info = AddSubFolder(counted, sub.info),
                                   !.statted = seen \cup sub.statted], dsize)
         ELSE GetLoop(items, i + 1, path,
                  [acc EXCEPT !.info = AddUtilsFile(@, item), !.statted = seen],
                  dsize)

getFolderInfo(dir, path, dsize) ==
    LET start == [raised |-> FALSE, info |-> NewUtilsInfo(path, dsize),
                  statted |-> {path}]
    IN
    IF ~dir.exists \/ ~dir.listable THEN [start EXCEPT !.raised = TRUE]
    ELSE GetLoop(dir.entries, 1, path, start, dsize)


----------------------------------------------------------------------------
(* The bounded set of directory trees the scanners are applied to.         *)

LeafDir == Dir(<<FileEntry("a", <<2, 1000>>, "ok")>>)

SubEntries ==
    {FileEntry(n, <<1, 1500>>, a) : n \in ScanNames, a \in {"ok", "failBoth"}}
    \cup {DirEntry(n, "ok", d) : n \in {"Windows", "windows"},
                                 d \in {LeafDir, UnlistableDir}}

SubDirs == {Dir(<<>>)} \cup {Dir(<<e>>) : e \in SubEntries}

RootEntries ==
    {FileEntry(n, sh, a) : n \in ScanNames, sh \in FileShapes, a \in FileAccess}
    \cup {DirEntry(n, "failBoth", LeafDir) : n \in ScanNames}
    \cup {DirEntry(n, "ok", d) : n \in ScanNames, d \in SubDirs \cup {UnlistableDir}}

\* the number of failing stats and listings at and below an entry
RECURSIVE EntryFailures(_)
RECURSIVE ListingFailures(_)
EntryFailures(e) ==
    (IF e.access = "ok" THEN 0 ELSE 1)
    + (IF e.kind = "dir" /\ ~e.dir.listable THEN 1 ELSE 0)
    + (IF e.kind = "dir" THEN ListingFailures(e.dir.entries) ELSE 0)
ListingFailures(es) ==
    IF es = <<>> THEN 0 ELSE EntryFailures(Head(es)) + ListingFailures(Tail(es))

EntryNames(es) == {es[i].name : i \in 1..Len(es)}

\* the listings of at most k entries with distinct names and at most
\* MaxFailures failures
RECURSIVE Listings(_)
Listings(k) ==
    IF k = 0 THEN {<<>>}
    ELSE LET shorter == Listings(k - 1) IN
         shorter \cup
         {Append(es, e) : <<es, e>> \in
             {p \in {x \in shorter : Len(x) = k - 1} \X RootEntries :
                 /\ p[2].name \notin EntryNames(p[1])
                 /\ ListingFailures(p[1]) + EntryFailures(p[2]) <= MaxFailures}}

ScanTrees == {Dir(es) : es \in Listings(MaxEntries)} \cup {UnlistableDir, MissingDir}

----------------------------------------------------------------------------
(* The state of a run while only the scanners are exercised, and of the    *)
(* scanners while only a run is.                                           *)

NoResult == [raised |-> FALSE, info |-> NewInfo(<<>>), statted |-> {}]
Idle == [fn |-> "none", dsize |-> 0]

\* config.json: an optional field is <<>> when absent, <<value>> when given
NoConfig == [fileExists |-> FALSE, parses |-> FALSE, hasSftp |-> FALSE,
             folderPath |-> "", host |-> "", username |-> "", password |-> "",
             port |-> <<>>, remotePath |-> <<>>]
NoHist == [wsErrored |-> FALSE, rsErrored |-> FALSE, cleanClose |-> FALSE,
           connErrBeforeClose |-> FALSE, connErrAfterClose |-> FALSE,
           opened |-> FALSE]

\* ensureRemoteDirectory not called
MkIdle == [status |-> "idle", remotePath |-> <<>>, parts |-> <<>>, next |-> 1,
           currentPath |-> <<>>, calls |-> <<>>, codes |-> <<>>]

\* the interactive program not started
InterIdle == [pc |-> "idle", said |-> "", runs |-> <<>>]

\* no filename computed
StampIdle == [program |-> "none", times |-> <<>>, names |-> <<>>]

\* no request received
HttpIdle == [path |-> <<>>, handled |-> FALSE, response |-> <<>>]

SideIdle ==
    mk = MkIdle /\ inter = InterIdle /\ stamp = StampIdle /\ http = HttpIdle

RunIdle ==
    /\ cfg = NoConfig
    /\ pc = "idle"
    /\ folderInfo = NewInfo(<<>>)
    /\ localFile = "none"
    /\ conn = "none"
    /\ sftp = "none"
    /\ ws = "none"
    /\ rs = "none"
    /\ endCalls = 0
    /\ errs = {}
    /\ hist = NoHist
    /\ exitCode = <<>>
    /\ trace = <<>>

----------------------------------------------------------------------------
(* SpecScan: each scanner applied once to a tree of ScanTrees.             *)

InitScan ==
    /\ tree \in ScanTrees
    /\ scanner = Idle
    /\ result = NoResult
    /\ RunIdle
    /\ SideIdle

\* collectFolderInfo of the config-driven script (adds latestFile)
ScanCollectLatest ==
    /\ scanner.fn = "none"
    /\ scanner' = [fn |-> "collectLatest", dsize |-> 0]
    /\ result' = collectFolderInfo(tree, RootPath, "string")
    /\ UNCHANGED <<tree, runVars, sideVars>>

\* collectFolderInfo of the config-driven script, importing the
\* getLatestModifiedFile whose FileInfo carries lastModified as a Date
ScanCollectLatestDate ==
    /\ scanner.fn = "none"
    /\ scanner' = [fn |-> "collectLatestDate", dsize |-> 0]
    /\ result' = collectFolderInfo(tree, RootPath, "Date")
    /\ UNCHANGED <<tree, runVars, sideVars>>

\* collectFolderInfo of the interactive script
ScanCollect ==
    /\ scanner.fn = "none"
    /\ scanner' = [fn |-> "collect", dsize |-> 0]
    /\ result' = collectFolderInfo(tree, RootPath, "none")
    /\ UNCHANGED <<tree, runVars, sideVars>>

\* getFolderInfo of folderUtils
ScanGetFolderInfo ==
    /\ scanner.fn = "none"
    /\ \E ds \in DirSizes :
          /\ scanner' = [fn |-> "getFolderInfo", dsize |-> ds]
          /\ result' = getFolderInfo(tree, RootPath, ds)
    /\ UNCHANGED <<tree, runVars, sideVars>>

NextScan ==
    ScanCollectLatest \/ ScanCollectLatestDate \/ ScanCollect \/ ScanGetFolderInfo

SpecScan == InitScan /\ [][NextScan]_vars

----------------------------------------------------------------------------
(* What the scan properties speak of.                                      *)

Scanned == scanner.fn # "none"
CollectScanned == scanner.fn \in {"collectLatest", "collectLatestDate", "collect"}

\* the getLatestModifiedFile a scanner calls, if any
LatestMode(fn) ==
    CASE fn = "collectLatest" -> "string"
      [] fn = "collectLatestDate" -> "Date"
      [] OTHER -> "none"

\* the scan that produced `result`, applied to another directory
ScanOf(dir, path) ==
    IF scanner.fn = "getFolderInfo" THEN getFolderInfo(dir, path, scanner.dsize)
    ELSE collectFolderInfo(dir, path, LatestMode(scanner.fn))

RestrictedOf(fn) ==
    IF fn = "getFolderInfo" THEN RESTRICTED_FOLDERS_UTILS ELSE RESTRICTED_FOLDERS

EntryIndex(dir, n) == CHOOSE i \in 1..Len(dir.entries) : dir.entries[i].name = n

\* every node of a returned tree, paired with the directory it describes
RECURSIVE Pairs(_, _)
Pairs(node, dir) ==
    {<<node, dir>>} \cup
    UNION {Pairs(node.subFolders[j],
                 dir.entries[EntryIndex(dir, Last(node.subFolders[j].path))].dir) :
           j \in 1..Len(node.subFolders)}

ResultPairs == IF result.raised THEN {} ELSE Pairs(result.info, tree)

\* the entry is a regular file the aggregation loop counts
Counted(e, restricted) ==
    e.kind = "file" /\ e.name \notin restricted /\ StatOk(e, "scan")

CountedSize(dir, restricted) ==
    SeqSum([i \in 1..Len(dir.entries) |->
               IF Counted(dir.entries[i], restricted) THEN dir.entries[i].size ELSE 0])

CountedFiles(dir, restricted) ==
    Cardinality({i \in 1..Len(dir.entries) : Counted(dir.entries[i], restricted)})

ChildSizes(node) == SeqSum([j \in 1..Len(node.subFolders) |-> node.subFolders[j].size])
ChildCounts(node) ==
    SeqSum([j \in 1..Len(node.subFolders) |-> node.subFolders[j].fileCount])

NodeAggregates(node, dir, restricted) ==
    /\ node.size = CountedSize(dir, restricted) + ChildSizes(node)
    /\ node.fileCount = CountedFiles(dir, restricted) + ChildCounts(node)

\* C1: every node of the tree a scan returns has size = counted immediate
\* file sizes + the children's sizes, and fileCount likewise, for
\* collectFolderInfo and for getFolderInfo.
C1_Aggregation ==
    Scanned =>
        \A p \in ResultPairs : NodeAggregates(p[1], p[2], RestrictedOf(scanner.fn))

\* the same for the two collectFolderInfo scanners alone
C1_CollectAggregation ==
    CollectScanned =>
        \A p \in ResultPairs : NodeAggregates(p[1], p[2], RESTRICTED_FOLDERS)

\* getFolderInfo: each node also carries the directory's own stat size
C1_UtilsAggregation ==
    scanner.fn = "getFolderInfo" =>
        \A p \in ResultPairs :
            /\ p[1].size = scanner.dsize + CountedSize(p[2], RESTRICTED_FOLDERS_UTILS)
                           + ChildSizes(p[1])
            /\ p[1].fileCount = CountedFiles(p[2], RESTRICTED_FOLDERS_UTILS)
                                + ChildCounts(p[1])

----------------------------------------------------------------------------
\* the directory without its entries of restricted name, at every depth
RECURSIVE Prune(_, _)
RECURSIVE PruneEntries(_, _)
PruneEntries(es, restricted) ==
    IF es = <<>> THEN <<>>
    ELSE IF Head(es).name \in restricted THEN PruneEntries(Tail(es), restricted)
    ELSE <<[Head(es) EXCEPT !.dir = Prune(@, restricted)]>>
         \o PruneEntries(Tail(es), restricted)
Prune(dir, restricted) == [dir EXCEPT !.entries = PruneEntries(@, restricted)]

\* path, size, fileCount and subFolders of a node and of the nodes below it
RECURSIVE Aggregates(_)
Aggregates(node) ==
    [path |-> node.path, size |-> node.size, fileCount |-> node.fileCount,
     subFolders |-> [j \in 1..Len(node.subFolders) |-> Aggregates(node.subFolders[j])]]

\* no path handed to stat ends in a restricted name
RestrictedNeverStatted ==
    \A p \in result.statted : Last(p) \notin RestrictedOf(scanner.fn)

\* no node of the returned tree describes an entry of restricted name
RestrictedNeverListed ==
    \A p \in ResultPairs : \A j \in 1..Len(p[1].subFolders) :
        Last(p[1].subFolders[j].path) \notin RestrictedOf(scanner.fn)

\* the aggregates are those of the tree without its restricted entries
RestrictedCountNothing ==
    ~result.raised =>
        Aggregates(result.info)
            = Aggregates(ScanOf(Prune(tree, RestrictedOf(scanner.fn)), RootPath).info)

\* every entry of another name, in a directory that was listed, is stat-ed
OthersNeverSkipped ==
    \A p \in ResultPairs : \A i \in 1..Len(p[2].entries) :
        p[2].entries[i].name \notin RestrictedOf(scanner.fn)
            => PathJoin(p[1].path, p[2].entries[i].name) \in result.statted

\* C2: an entry whose name is in the restricted set is never stat-ed, never
\* appears in subFolders and adds nothing to any ancestor's size or
\* fileCount; an entry of any other name is never skipped by the filter.
C2_RestrictedUntouched ==
    Scanned =>
        /\ RestrictedNeverStatted
        /\ RestrictedNeverListed
        /\ RestrictedCountNothing
        /\ OthersNeverSkipped

\* what remains true of every scanner: all of C2 but "never stat-ed"
C2_RestrictedUncounted ==
    Scanned => RestrictedNeverListed /\ RestrictedCountNothing /\ OthersNeverSkipped

\* "never stat-ed" is true of the scanners that do not look for latestFile
C2_NeverStattedWithoutLatest ==
    scanner.fn \in {"collect", "getFolderInfo"} => RestrictedNeverStatted

----------------------------------------------------------------------------
\* entry i of dir is a subdirectory the scan enters and cannot list
FailedSubdir(dir, i) ==
    /\ dir.entries[i].kind = "dir"
    /\ dir.entries[i].name \notin RestrictedOf(scanner.fn)
    /\ StatOk(dir.entries[i], "scan")
    /\ ~dir.entries[i].dir.listable

AsIfEmpty(dir, i) == [dir EXCEPT !.entries[i].dir = Dir(<<>>)]

Without(dir, i) ==
    [dir EXCEPT !.entries = SubSeq(@, 1, i - 1) \o SubSeq(@, i + 1, Len(@))]

HasNodeFor(node, n) ==
    \E j \in 1..Len(node.subFolders) : Last(node.subFolders[j].path) = n

\* the node of a subdirectory that could not be listed: all zero, no latestFile
ZeroNodeFor(node, n) ==
    \E j \in 1..Len(node.subFolders) :
        LET sub == node.subFolders[j] IN
        /\ sub.path = PathJoin(node.path, n)
        /\ sub.size = 0
        /\ sub.fileCount = 0
        /\ sub.subFolders = <<>>
        /\ ("latestFile" \in DOMAIN sub => sub.latestFile = <<>>)

\* C3 as stated: for every scanner, a subdirectory that cannot be listed
\* leaves a zero node in its parent's subFolders, and the parent's size and
\* fileCount (and the nodes of the siblings) are those of the scan in which
\* that subdirectory is empty.
C3_ZeroNodeEveryScanner ==
    Scanned =>
        \A p \in ResultPairs : \A i \in 1..Len(p[2].entries) :
            FailedSubdir(p[2], i) =>
                /\ ZeroNodeFor(p[1], p[2].entries[i].name)
                /\ LET asIf == ScanOf(AsIfEmpty(p[2], i), p[1].path).info IN
                   /\ p[1].size = asIf.size
                   /\ p[1].fileCount = asIf.fileCount

\* C3 amended: collectFolderInfo keeps a zero node for the subdirectory and
\* returns for the parent exactly the node it returns when the subdirectory
\* is empty; getFolderInfo leaves the subdirectory out of subFolders (it is
\* still counted in folderCount) and returns for the parent the node it
\* returns when the subdirectory is not there, so the siblings are processed
\* and the failed subdirectory adds nothing to size or fileCount.
C3_FailedSubdirContained ==
    Scanned =>
        \A p \in ResultPairs : \A i \in 1..Len(p[2].entries) :
            FailedSubdir(p[2], i) =>
                IF CollectScanned
                THEN /\ ZeroNodeFor(p[1], p[2].entries[i].name)
                     /\ p[1] = ScanOf(AsIfEmpty(p[2], i), p[1].path).info
                ELSE /\ ~HasNodeFor(p[1], p[2].entries[i].name)
                     /\ [p[1] EXCEPT !.folderCount = @ - 1]
                            = ScanOf(Without(p[2], i), p[1].path).info

\* a scan met an unlistable subdirectory first and counted a file after it
C3_Witness ==
    /\ CollectScanned
    /\ Len(tree.entries) >= 2
    /\ FailedSubdir(tree, 1)
    /\ Counted(tree.entries[2], RESTRICTED_FOLDERS)
    /\ result.info.fileCount = 1
    /\ Len(result.info.subFolders) = 1

----------------------------------------------------------------------------
(* SpecLatest: both getLatestModifiedFile variants on one flat listing.    *)
(* The entries are named by their place in the listing.                    *)

ListingNames == <<"f1", "f2", "f3", "f4", "f5">>

LatestEntry(i, k, m, a) ==
    [name |-> ListingNames[i], kind |-> k, access |-> a, size |-> i, mtime |-> m,
     dir |-> NoDir]

LatestListings ==
    UNION {[1..n -> {"file", "dir"} \X LatestMtimes \X {"ok", "failLatest"}] :
           n \in 0..MaxListing}

LatestDirs ==
    {Dir([i \in DOMAIN l |-> LatestEntry(i, l[i][1], l[i][2], l[i][3])]) :
        l \in LatestListings}
    \cup {UnlistableDir, MissingDir}

InitLatest ==
    /\ tree \in LatestDirs
    /\ scanner = Idle
    /\ result = NoResult
    /\ RunIdle
    /\ SideIdle

LatestResult(latest) ==
    [raised |-> FALSE,
     info |-> [NewInfo(RootPath) EXCEPT !.latestFile = latest],
     statted |-> LatestStatted(tree, RootPath)]

\* the formatted-string variant
FindLatestString ==
    /\ scanner.fn = "none"
    /\ scanner' = [fn |-> "latestString", dsize |-> 0]
    /\ result' = LatestResult(getLatestModifiedFile(tree))
    /\ UNCHANGED <<tree, runVars, sideVars>>

\* the Date variant
FindLatestDate ==
    /\ scanner.fn = "none"
    /\ scanner' = [fn |-> "latestDate", dsize |-> 0]
    /\ result' = LatestResult(getLatestModifiedFileDate(tree))
    /\ UNCHANGED <<tree, runVars, sideVars>>

NextLatest == FindLatestString \/ FindLatestDate

SpecLatest == InitLatest /\ [][NextLatest]_vars

LatestFound == scanner.fn \in {"latestString", "latestDate"}

\* the statable regular files directly inside the directory
Candidates(dir) ==
    {i \in 1..Len(dir.entries) :
        dir.entries[i].kind = "file" /\ StatOk(dir.entries[i], "latest")}

MaxMtime(dir) ==
    CHOOSE m \in {dir.entries[i].mtime : i \in Candidates(dir)} :
        \A i \in Candidates(dir) : dir.entries[i].mtime <= m

\* the first entry, in listing order, with the maximal instant
FirstOfLatest(dir) ==
    CHOOSE i \in Candidates(dir) :
        /\ dir.entries[i].mtime = MaxMtime(dir)
        /\ \A j \in Candidates(dir) : dir.entries[j].mtime = MaxMtime(dir) => i <= j

\* the maximal instant is shared by several files
TiedLatest(dir) ==
    Cardinality({i \in Candidates(dir) : dir.entries[i].mtime = MaxMtime(dir)}) >= 2

\* C10: when several regular files share the maximal modification instant,
\* getLatestModifiedFile (either variant) returns the one that comes first
\* in the listing.
C10_FirstWins ==
    (LatestFound /\ Candidates(tree) # {} /\ TiedLatest(tree)) =>
        /\ result.info.latestFile # <<>>
        /\ result.info.latestFile[1].name = tree.entries[FirstOfLatest(tree)].name

\* the Date variant alone is first-wins
C10_DateFirstWins ==
    (scanner.fn = "latestDate" /\ Candidates(tree) # {} /\ TiedLatest(tree)) =>
        /\ result.info.latestFile # <<>>
        /\ result.info.latestFile[1].name = tree.entries[FirstOfLatest(tree)].name

----------------------------------------------------------------------------
(* Spec: one run of the config-driven transfer program, from startTransfer *)
(* to the end of the process.  The ssh2 client and the two streams are the *)
(* environment: their events arrive in any order the library can produce.  *)

FullConfig(port, remotePath) ==
    [fileExists |-> TRUE, parses |-> TRUE, hasSftp |-> TRUE, folderPath |-> "data",
     host |-> "h", username |-> "u", password |-> "p",
     port |-> port, remotePath |-> remotePath]

Configs ==
    {FullConfig(po, rp) : po \in {<<>>, <<22>>}, rp \in {<<>>, <<"">>, <<"out">>}}
    \cup {NoConfig,
          [NoConfig EXCEPT !.fileExists = TRUE],
          [FullConfig(<<22>>, <<"out">>) EXCEPT !.hasSftp = FALSE],
          [FullConfig(<<22>>, <<"out">>) EXCEPT !.folderPath = ""],
          [FullConfig(<<22>>, <<"out">>) EXCEPT !.host = ""],
          [FullConfig(<<22>>, <<"out">>) EXCEPT !.username = ""],
          [FullConfig(<<22>>, <<"out">>) EXCEPT !.password = ""]}

\* the trees found at config.folderPath
RunTrees == {Dir(es) : es \in Listings(1)} \cup {UnlistableDir, MissingDir}

Init ==
    /\ tree \in RunTrees
    /\ scanner = Idle
    /\ result = NoResult
    /\ cfg \in Configs
    /\ SideIdle
    /\ pc = "start"
    /\ folderInfo = NewInfo(<<>>)
    /\ localFile = "none"
    /\ conn = "none"
    /\ sftp = "none"
    /\ ws = "none"
    /\ rs = "none"
    /\ endCalls = 0
    /\ errs = {}
    /\ hist = NoHist
    /\ exitCode = <<>>
    /\ trace = <<>>

Alive == exitCode = <<>>

\* loadConfig with a slip: the password is not among the required values
ConfigValidWithoutPassword(c) ==
    /\ c.fileExists
    /\ c.parses
    /\ c.folderPath # ""
    /\ c.hasSftp
    /\ c.host # ""
    /\ c.username # ""

\* loadConfig accepts the file
ConfigValid(c) ==
    /\ c.fileExists
    /\ c.parses
    /\ c.folderPath # ""
    /\ c.hasSftp
    /\ c.host # ""
    /\ c.username # ""
    /\ c.password # ""

\* startTransfer up to the return of loadConfig, which ends the process with
\* code 1 on any error
LoadConfig ==
    /\ Alive
    /\ pc = "start"
    /\ IF ConfigValid(cfg)
       THEN /\ pc' = "loaded"
            /\ UNCHANGED <<errs, exitCode>>
       ELSE /\ pc' = "exited"
            /\ errs' = errs \cup {"config"}
            /\ exitCode' = <<1>>
    /\ UNCHANGED <<scanVars, sideVars, cfg, folderInfo, localFile, conn, sftp, ws, rs,
                   endCalls, hist, trace>>

\* transferFolderInfo up to the await of collectFolderInfo
TransferScan ==
    /\ Alive
    /\ pc = "loaded"
    /\ folderInfo' = collectFolderInfo(tree, <<cfg.folderPath>>, "string").info
    /\ trace' = Append(trace, "scan")
    /\ pc' = "scanned"
    /\ UNCHANGED <<scanVars, sideVars, cfg, localFile, conn, sftp, ws, rs, endCalls, errs,
                   hist, exitCode>>

\* transferFolderInfo from JSON.stringify to conn.connect, and the return to
\* startTransfer; a failing writeFileSync is caught and logged by startTransfer
TransferSend ==
    /\ Alive
    /\ pc = "scanned"
    /\ pc' = "returned"
    /\ \E writeOk \in BOOLEAN :
          IF writeOk
          THEN /\ localFile' = "present"
               /\ conn' = "connecting"
               /\ trace' = trace \o <<"write", "connect">>
               /\ UNCHANGED errs
          ELSE /\ errs' = errs \cup {"run"}
               /\ trace' = Append(trace, "write")
               /\ UNCHANGED <<localFile, conn>>
    /\ UNCHANGED <<scanVars, sideVars, cfg, folderInfo, sftp, ws, rs, endCalls, hist, exitCode>>

\* conn.end(): counted, and an open connection starts closing
EndConn(c) == IF c = "ready" THEN "ending" ELSE c

\* the 'ready' handler
ConnReady ==
    /\ Alive
    /\ conn = "connecting"
    /\ conn' = "ready"
    /\ sftp' = "requested"
    /\ hist' = [hist EXCEPT !.opened = TRUE]
    /\ trace' = Append(trace, "sftp")
    /\ UNCHANGED <<scanVars, sideVars, cfg, pc, folderInfo, localFile, ws, rs, endCalls, errs,
                   exitCode>>

\* the conn.sftp callback: with an error, or with a session, in which case
\* the two streams are created and piped; path.join throws on a remotePath
\* that is not a string, and nothing catches it
SftpCallback ==
    /\ Alive
    /\ sftp = "requested"
    /\ \E ok \in {b \in BOOLEAN : b => conn = "ready"} :
          IF ~ok
          THEN /\ sftp' = "failed"
               /\ errs' = errs \cup {"sftp"}
               /\ endCalls' = endCalls + 1
               /\ conn' = EndConn(conn)
               /\ trace' = Append(trace, "end")
               /\ UNCHANGED <<ws, rs, exitCode, pc>>
          ELSE IF cfg.remotePath = <<>>
          THEN /\ sftp' = "open"
               /\ exitCode' = <<1>>
               /\ pc' = "crashed"
               /\ UNCHANGED <<errs, endCalls, conn, trace, ws, rs>>
          ELSE /\ sftp' = "open"
               /\ rs' = "piping"
               /\ ws' = "open"
               /\ trace' = trace \o <<"createReadStream", "createWriteStream">>
               /\ UNCHANGED <<errs, endCalls, conn, exitCode, pc>>
    /\ UNCHANGED <<scanVars, sideVars, cfg, folderInfo, localFile, hist>>

\* the read stream reaches the end of the file and pipe() ends the write stream
RsEnd ==
    /\ Alive
    /\ rs = "piping"
    /\ ws = "open"
    /\ rs' = "ended"
    /\ UNCHANGED <<scanVars, sideVars, cfg, pc, folderInfo, localFile, conn, sftp, ws,
                   endCalls, errs, hist, exitCode, trace>>

\* the read stream emits 'error': no listener is registered, the error is
\* thrown and the process dies of the uncaught exception
RsError ==
    /\ Alive
    /\ rs = "piping"
    /\ rs' = "errored"
    /\ hist' = [hist EXCEPT !.rsErrored = TRUE]
    /\ exitCode' = <<1>>
    /\ pc' = "crashed"
    /\ UNCHANGED <<scanVars, sideVars, cfg, folderInfo, localFile, conn, sftp, ws, endCalls,
                   errs, trace>>

\* the writeStream 'error' handler
WsError ==
    /\ Alive
    /\ ws = "open"
    /\ ws' = "errored"
    /\ hist' = [hist EXCEPT !.wsErrored = TRUE]
    /\ errs' = errs \cup {"stream"}
    /\ endCalls' = endCalls + 1
    /\ conn' = EndConn(conn)
    /\ trace' = Append(trace, "end")
    /\ UNCHANGED <<scanVars, sideVars, cfg, pc, folderInfo, localFile, sftp, rs, exitCode>>

\* the writeStream 'close' handler; 'close' comes after the data has been
\* written, and also after an 'error' when the stream is destroyed.  The
\* report file is there whenever the streams exist, so unlinkSync succeeds.
WsClose ==
    /\ Alive
    /\ \/ ws = "open" /\ rs = "ended"
       \/ ws = "errored"
    /\ localFile = "present"
    /\ ws' = "closed"
    /\ hist' = [hist EXCEPT !.cleanClose = (ws = "open")]
    /\ localFile' = "deleted"
    /\ endCalls' = endCalls + 1
    /\ conn' = EndConn(conn)
    /\ trace' = trace \o <<"unlink", "end">>
    /\ UNCHANGED <<scanVars, sideVars, cfg, pc, folderInfo, sftp, rs, errs, exitCode>>

\* the conn 'error' handler: logs, whatever the state of the upload
ConnError ==
    /\ Alive
    /\ conn \in {"connecting", "ready", "ending"}
    /\ conn' = "closed"
    /\ errs' = errs \cup {"conn"}
    /\ hist' = IF hist.cleanClose THEN [hist EXCEPT !.connErrAfterClose = TRUE]
               ELSE [hist EXCEPT !.connErrBeforeClose = TRUE]
    /\ UNCHANGED <<scanVars, sideVars, cfg, pc, folderInfo, localFile, sftp, ws, rs, endCalls,
                   exitCode, trace>>

\* the connection finishes closing after conn.end()
ConnClose ==
    /\ Alive
    /\ conn = "ending"
    /\ conn' = "closed"
    /\ UNCHANGED <<scanVars, sideVars, cfg, pc, folderInfo, localFile, sftp, ws, rs, endCalls,
                   errs, hist, exitCode, trace>>

\* nothing is left to wait for: startTransfer has returned, the connection
\* is closed (or was never opened) and no callback or stream event is
\* outstanding; the process ends with code 0
ProcessExit ==
    /\ Alive
    /\ pc = "returned"
    /\ conn \in {"none", "closed"}
    /\ sftp # "requested"
    /\ ws # "open"
    /\ exitCode' = <<0>>
    /\ UNCHANGED <<scanVars, sideVars, cfg, pc, folderInfo, localFile, conn, sftp, ws, rs,
                   endCalls, errs, hist, trace>>

Next ==
    \/ LoadConfig
    \/ TransferScan
    \/ TransferSend
    \/ ConnReady
    \/ SftpCallback
    \/ RsEnd
    \/ RsError
    \/ WsError
    \/ WsClose
    \/ ConnError
    \/ ConnClose
    \/ ProcessExit

Spec == Init /\ [][Next]_vars

----------------------------------------------------------------------------
(* Properties of a run.                                                    *)

Ended == exitCode # <<>>
RootUnreadable == ~tree.exists \/ ~tree.listable

\* position of the first occurrence of a call in the trace, 0 if none
FirstAt(call) ==
    IF \E i \in 1..Len(trace) : trace[i] = call
    THEN CHOOSE i \in 1..Len(trace) :
             trace[i] = call /\ \A j \in 1..(i - 1) : trace[j] # call
    ELSE 0

Called(call) == FirstAt(call) > 0
Before(a, b) == Called(b) => (Called(a) /\ FirstAt(a) < FirstAt(b))

\* C4: when the scan root is missing or cannot be listed the run aborts
\* before any transfer step: no report file is written and no connection
\* is opened.
C4_RootFailureAborts ==
    RootUnreadable =>
        /\ localFile = "none"
        /\ conn = "none"
        /\ ~Called("write")
        /\ ~Called("connect")

\* what the run does instead: the scan returns the zero node for the root
C4_RootFailureScansZero ==
    (RootUnreadable /\ Called("scan")) =>
        folderInfo = NewInfo(<<cfg.folderPath>>)

\* C5: the report file is deleted only after a clean close with no stream
\* error, and a run in which a stream raised an error ends with the file
\* still there.
C5_DeleteOnlyOnCleanClose ==
    /\ localFile = "deleted" =>
          hist.cleanClose /\ ~hist.wsErrored /\ ~hist.rsErrored
    /\ (Ended /\ (hist.wsErrored \/ hist.rsErrored)) => localFile = "present"

\* the file outlives a write stream error exactly until 'close' follows
C5_DeletedOnAnyClose == localFile = "deleted" <=> ws = "closed"

\* C6: in a run that opened a connection conn.end() is called exactly once:
\* never twice, and not zero times in a run that has come to its end.
C6_TeardownOnce ==
    /\ endCalls <= 1
    /\ (exitCode = <<0>> /\ hist.opened) => endCalls = 1

\* conn.end() is called at least once in every run that opened a connection
\* and ended by itself
C6_NeverZeroOnExit == (exitCode = <<0>> /\ hist.opened) => endCalls >= 1

\* ... but not in a run that dies of an uncaught exception
C6_NeverZero == (Ended /\ hist.opened) => endCalls >= 1

\* a fatal error of the transfer happened
TransferFailed ==
    \/ hist.connErrBeforeClose
    \/ sftp = "failed"
    \/ hist.wsErrored
    \/ hist.rsErrored

\* C7: every fatal error of the transfer (connection, SFTP session, upload
\* stream) ends the run with a non-zero exit code, and a run that started a
\* transfer ends with exit code 0 only after a clean close of the upload.
C7_FailuresExitNonZero ==
    Ended =>
        /\ TransferFailed => exitCode # <<0>>
        /\ (exitCode = <<0>> /\ Called("connect")) => hist.cleanClose

\* the only non-zero exits of a run: loadConfig, and an exception no handler
\* catches (read stream error, path.join on a missing remotePath)
C7_NonZeroOnlyByConfigOrCrash ==
    exitCode = <<1>> => pc \in {"exited", "crashed"}

\* C8: a connection error on an opened connection leaves the exit code 0
\* when it comes after the clean close, and makes the run fail when it comes
\* before a clean close.
C8_ResetBenignOnlyAfterClose ==
    Ended =>
        /\ (hist.connErrAfterClose /\ ~TransferFailed) => exitCode = <<0>>
        /\ (hist.connErrBeforeClose /\ hist.opened) => exitCode # <<0>>

\* the first half alone
C8_ResetAfterCloseBenign ==
    (Ended /\ hist.connErrAfterClose /\ ~TransferFailed) => exitCode = <<0>>

\* C9: the steps of a run come in the order scan, serialize (write),
\* connect, ensure remote directory, upload, local cleanup, close: the
\* remote write stream is never opened before ensureRemoteDirectory, and no
\* connection before the scan returned and the report was written.
C9_StepsInOrder ==
    /\ Before("scan", "write")
    /\ Before("write", "connect")
    /\ Before("connect", "ensureRemoteDirectory")
    /\ Before("ensureRemoteDirectory", "createWriteStream")
    /\ Before("createWriteStream", "unlink")
    /\ Called("unlink") => (Called("end") /\ FirstAt("unlink") < FirstAt("end"))

\* the order the run does keep; the remote directory is never ensured
C9_StepsWithoutEnsure ==
    /\ Before("scan", "write")
    /\ Before("write", "connect")
    /\ Before("connect", "createWriteStream")
    /\ Before("createWriteStream", "unlink")
    /\ ~Called("ensureRemoteDirectory")

----------------------------------------------------------------------------
(* The report as JSON.  A value of the tree is held by JavaScript with a   *)
(* type; lastModified is a string ("yyyy-mm-dd HH:mm:ss", counted here in  *)
(* seconds) or a Date (an instant in milliseconds), by the                 *)
(* getLatestModifiedFile that produced it.                                 *)

JsLastModified(mode, n) ==
    IF mode = "Date"
    THEN [type |-> "Date", format |-> "instant", n |-> n]
    ELSE [type |-> "string", format |-> "yyyy-mm-dd HH:mm:ss", n |-> n]

RECURSIVE JsInfo(_, _)
JsInfo(info, mode) ==
    [path |-> info.path, size |-> info.size, fileCount |-> info.fileCount,
     subFolders |-> [j \in 1..Len(info.subFolders) |-> JsInfo(info.subFolders[j], mode)],
     latestFile |->
        IF info.latestFile = <<>> THEN <<>>
        ELSE <<[name |-> info.latestFile[1].name,
                size |-> info.latestFile[1].size,
                lastModified |-> JsLastModified(mode, info.latestFile[1].lastModified)]>>]

\* JSON text of a lastModified: a string is quoted as it is, a Date is
\* written by its toJSON, which is the quoted ISO form of the instant
JSONStringifyValue(v) ==
    IF v.type = "Date"
    THEN [json |-> "string", format |-> "ISO", n |-> v.n]
    ELSE [json |-> "string", format |-> v.format, n |-> v.n]

\* JSON.stringify(folderInfo, null, 2): a property whose value is undefined
\* (latestFile of a folder without one) is left out of the text
RECURSIVE JSONStringify(_)
JSONStringify(v) ==
    [path |-> v.path, size |-> v.size, fileCount |-> v.fileCount,
     subFolders |-> [j \in 1..Len(v.subFolders) |-> JSONStringify(v.subFolders[j])],
     latestFile |->
        IF v.latestFile = <<>> THEN <<>>
        ELSE <<[name |-> v.latestFile[1].name,
                size |-> v.latestFile[1].size,
                lastModified |-> JSONStringifyValue(v.latestFile[1].lastModified)]>>]

\* JSON.parse without a reviver: a quoted text becomes a string
JSONParseValue(t) == [type |-> "string", format |-> t.format, n |-> t.n]

RECURSIVE JSONParse(_)
JSONParse(t) ==
    [path |-> t.path, size |-> t.size, fileCount |-> t.fileCount,
     subFolders |-> [j \in 1..Len(t.subFolders) |-> JSONParse(t.subFolders[j])],
     latestFile |->
        IF t.latestFile = <<>> THEN <<>>
        ELSE <<[name |-> t.latestFile[1].name,
                size |-> t.latestFile[1].size,
                lastModified |-> JSONParseValue(t.latestFile[1].lastModified)]>>]

ReportValue == JsInfo(result.info, LatestMode(scanner.fn))

RoundTrips == JSONParse(JSONStringify(ReportValue)) = ReportValue

\* C11: every FolderInfo tree a report scan returns, with or without
\* latestFile on its nodes, is equal field for field to the tree read back
\* from its JSON text.
C11_RoundTrip == (CollectScanned /\ ~result.raised) => RoundTrips

\* the same for the trees whose lastModified is a string or absent
C11_StringRoundTrip ==
    (scanner.fn \in {"collectLatest", "collect"} /\ ~result.raised) => RoundTrips

C11_StringWitness ==
    /\ scanner.fn = "collectLatest"
    /\ result.info.latestFile # <<>>
    /\ result.info.subFolders # <<>>

----------------------------------------------------------------------------
(* Start-up of the config-driven script.                                   *)

\* config.json is absent, is not JSON, or lacks one of the required values
ConfigLacking(c) ==
    \/ ~c.fileExists
    \/ ~c.parses
    \/ ~c.hasSftp
    \/ c.folderPath = ""
    \/ c.host = ""
    \/ c.username = ""
    \/ c.password = ""

\* C12: with config.json absent, unparsable, or lacking folderPath,
\* sftp.host, sftp.username or sftp.password (the sftp object being absent
\* included), the run does no scan, writes no report and opens no
\* connection, and once loadConfig has run the process has ended with a
\* non-zero exit code.
C12_BadConfigAborts ==
    ConfigLacking(cfg) =>
        /\ trace = <<>>
        /\ localFile = "none"
        /\ conn = "none"
        /\ pc \in {"start", "exited"}
        /\ pc = "exited" => (exitCode # <<>> /\ exitCode # <<0>> /\ "config" \in errs)

\* a config without the sftp object has been refused
C12_Witness ==
    /\ cfg.fileExists /\ cfg.parses /\ ~cfg.hasSftp
    /\ pc = "exited"
    /\ exitCode = <<1>>

----------------------------------------------------------------------------
(* The latest file against the true instants.                              *)

\* the entry of the directory that the returned latestFile names
ReturnedEntry(dir) ==
    CHOOSE i \in 1..Len(dir.entries) :
        dir.entries[i].name = result.info.latestFile[1].name

\* C13: getLatestModifiedFile (either variant) returns a statable regular
\* file directly inside the folder whose modification instant, as the
\* filesystem reports it, is not older than that of any other such file;
\* with no such file it returns none, and a subdirectory is never returned.
\* (Stated for folders whose newest file is alone at its instant.)
C13_TrueMaximum ==
    (LatestFound /\ tree.exists /\ tree.listable) =>
        IF Candidates(tree) = {} THEN result.info.latestFile = <<>>
        ELSE ~TiedLatest(tree) =>
                /\ result.info.latestFile # <<>>
                /\ ReturnedEntry(tree) \in Candidates(tree)
                /\ tree.entries[ReturnedEntry(tree)].mtime = MaxMtime(tree)

\* the Date variant returns the true maximum, ties included
C13_DateTrueMaximum ==
    (scanner.fn = "latestDate" /\ tree.exists /\ tree.listable) =>
        IF Candidates(tree) = {} THEN result.info.latestFile = <<>>
        ELSE /\ result.info.latestFile # <<>>
             /\ ReturnedEntry(tree) \in Candidates(tree)
             /\ tree.entries[ReturnedEntry(tree)].mtime = MaxMtime(tree)

----------------------------------------------------------------------------
(* One entry whose stat fails.                                             *)

\* entry i of dir is looked at by the scan and its stat fails there
FailedEntry(dir, i) ==
    /\ dir.entries[i].name \notin RestrictedOf(scanner.fn)
    /\ ~StatOk(dir.entries[i], "scan")

\* C14: when the stat of a single entry fails during the scan, the scan
\* does not fail and the node returned for the folder holding the entry is
\* the node the same scan returns for that folder without the entry (the
\* entries after it are processed as usual).
C14_EntryFailureContained ==
    Scanned =>
        /\ (tree.exists /\ tree.listable) => ~result.raised
        /\ \A p \in ResultPairs : \A i \in 1..Len(p[2].entries) :
              FailedEntry(p[2], i) =>
                  p[1] = ScanOf(Without(p[2], i), p[1].path).info

\* the same for the entries that no later pass of the scan can stat either
C14_ContainedWhenNeverStatable ==
    Scanned =>
        /\ (tree.exists /\ tree.listable) => ~result.raised
        /\ \A p \in ResultPairs : \A i \in 1..Len(p[2].entries) :
              (FailedEntry(p[2], i)
                 /\ (LatestMode(scanner.fn) # "none" => ~StatOk(p[2].entries[i], "latest"))) =>
                  p[1] = ScanOf(Without(p[2], i), p[1].path).info

\* a failing entry in front of one that is counted
C14_ContainedWitness ==
    /\ Scanned
    /\ ~result.raised
    /\ Len(tree.entries) = 2
    /\ FailedEntry(tree, 1)
    /\ tree.entries[1].access = "failBoth"
    /\ result.info.fileCount >= 1

----------------------------------------------------------------------------
(* SpecEnsure: ensureRemoteDirectory of the interactive script.  A path is *)
(* the sequence of its characters.                                         *)

\* longest remote path tried
MaxPathLen == 4
PathChars == {"/", "a", "b"}
RemotePaths == UNION {[1..n -> PathChars] : n \in 0..MaxPathLen}

\* the status code the callback tests for
STATUS_FAILURE == 4

\* what the server answers to one mkdir: no error, or an error with its SFTP
\* status code.  A server answers FAILURE when the directory exists and also
\* for other refusals that have no code of their own.
MkdirAnswers ==
    {[code |-> 0, cause |-> "created"],
     [code |-> STATUS_FAILURE, cause |-> "exists"],
     [code |-> STATUS_FAILURE, cause |-> "no space"],
     [code |-> 3, cause |-> "permission denied"],
     [code |-> 2, cause |-> "no such file"]}

\* remotePath.split('/'): the pieces between the slashes, empty ones too
RECURSIVE SplitSlash(_, _)
SplitSlash(s, piece) ==
    IF s = <<>> THEN <<piece>>
    ELSE IF Head(s) = "/" THEN <<piece>> \o SplitSlash(Tail(s), <<>>)
    ELSE SplitSlash(Tail(s), Append(piece, Head(s)))

\* .filter(Boolean): the empty string is falsy
FilterBoolean(pieces) == SelectSeq(pieces, LAMBDA p : p # <<>>)

InitEnsure ==
    /\ tree = MissingDir
    /\ scanner = Idle
    /\ result = NoResult
    /\ RunIdle
    /\ mk \in {[MkIdle EXCEPT !.remotePath = p] : p \in RemotePaths}
    /\ inter = InterIdle
    /\ stamp = StampIdle
    /\ http = HttpIdle

\* entry of ensureRemoteDirectory: parts and currentPath
EnsureSplit ==
    /\ mk.status = "idle"
    /\ mk' = [mk EXCEPT !.status = "running",
                        !.parts = FilterBoolean(SplitSlash(mk.remotePath, <<>>)),
                        !.currentPath = <<>>,
                        !.next = 1]
    /\ UNCHANGED <<scanVars, runVars, inter, stamp, http>>

\* one turn of the loop: sftp.mkdir(currentPath) and its callback
EnsureMkdir ==
    /\ mk.status = "running"
    /\ mk.next <= Len(mk.parts)
    /\ \E answer \in MkdirAnswers :
          LET part == mk.parts[mk.next]
              current == IF mk.currentPath # <<>>
                         THEN mk.currentPath \o <<"/">> \o part
                         ELSE part
              sent == [mk EXCEPT !.currentPath = current,
                                 !.calls = Append(@, current),
                                 !.codes = Append(@, answer)]
          IN
          IF answer.code = 0 \/ answer.code = STATUS_FAILURE
          THEN mk' = [sent EXCEPT !.next = @ + 1]
          ELSE mk' = [sent EXCEPT !.status = "rejected"]
    /\ UNCHANGED <<scanVars, runVars, inter, stamp, http>>

\* the loop is over: the promise resolves
EnsureReturn ==
    /\ mk.status = "running"
    /\ mk.next > Len(mk.parts)
    /\ mk' = [mk EXCEPT !.status = "resolved"]
    /\ UNCHANGED <<scanVars, runVars, inter, stamp, http>>

NextEnsure == EnsureSplit \/ EnsureMkdir \/ EnsureReturn

SpecEnsure == InitEnsure /\ [][NextEnsure]_vars

\* the segments of a path and the path of its first k segments
Segments(p) == FilterBoolean(SplitSlash(p, <<>>))

RECURSIVE JoinSlash(_)
JoinSlash(segs) ==
    IF segs = <<>> THEN <<>>
    ELSE IF Len(segs) = 1 THEN segs[1]
    ELSE segs[1] \o <<"/">> \o JoinSlash(Tail(segs))

Absolute(p) == p # <<>> /\ p[1] = "/"

Prefix(p, k) ==
    (IF Absolute(p) THEN <<"/">> ELSE <<>>) \o JoinSlash(SubSeq(Segments(p), 1, k))

Tolerated(answer) == answer.cause \in {"created", "exists"}

\* C15: the mkdirs of ensureRemoteDirectory are, in order, one for each
\* cumulative prefix of the given path from the root downward, an absolute
\* path staying absolute, and the call resolves only after the deepest one.
C15_PrefixesInOrder ==
    /\ Len(mk.calls) <= Len(Segments(mk.remotePath))
    /\ \A k \in 1..Len(mk.calls) : mk.calls[k] = Prefix(mk.remotePath, k)
    /\ mk.status = "resolved" => Len(mk.calls) = Len(Segments(mk.remotePath))

\* C15, the answers: a deeper mkdir is attempted, and the call resolves,
\* only when every mkdir before created its directory or found it existing;
\* any other error fails the call at once.
C15_OnlyExistsTolerated ==
    /\ \A k \in 1..Len(mk.codes) :
          (k < Len(mk.codes) \/ mk.status = "resolved") => Tolerated(mk.codes[k])
    /\ (mk.codes # <<>> /\ ~Tolerated(Last(mk.codes))) => mk.status = "rejected"

\* for a relative path the mkdirs are the prefixes in order, and an error
\* whose code is not FAILURE ends the call
C15_RelativePrefixes ==
    ~Absolute(mk.remotePath) =>
        /\ C15_PrefixesInOrder
        /\ \A k \in 1..Len(mk.codes) :
              mk.codes[k].code \notin {0, STATUS_FAILURE} =>
                  (k = Len(mk.codes) /\ mk.status = "rejected")

C15_RelativeWitness ==
    /\ mk.remotePath = <<"a", "/", "b">>
    /\ mk.status = "resolved"
    /\ mk.codes[1].cause = "exists"

----------------------------------------------------------------------------
(* SpecInteractive: the interactive script.  startTransfer asks for a      *)
(* folder and the server, awaits transferFolderInfo and asks whether to    *)
(* go on with another folder.  inter.runs holds, for each call of          *)
(* transferFolderInfo that reached conn.connect, the state of its          *)
(* connection, sftp request, write stream and local report file.           *)

\* most calls of transferFolderInfo in one session
MaxRuns == 2

NewRun == [conn |-> "connecting", sftp |-> "none", ws |-> "none", file |-> "present"]

InitInteractive ==
    /\ tree = MissingDir
    /\ scanner = Idle
    /\ result = NoResult
    /\ RunIdle
    /\ mk = MkIdle
    /\ stamp = StampIdle
    /\ http = HttpIdle
    /\ inter = [pc |-> "askFolder", said |-> "", runs |-> <<>>]

Prompting == inter.pc \notin {"idle", "crashed"}

\* the callback of the folder question
AnswerFolder ==
    /\ inter.pc = "askFolder"
    /\ \E answer \in {"", "missing", "folder"} :
          inter' = CASE answer = "" ->
                          [inter EXCEPT !.said = "enter a folder path"]
                     [] answer = "missing" ->
                          [inter EXCEPT !.said = "folder does not exist"]
                     [] OTHER ->
                          [inter EXCEPT !.pc = "askConfig", !.said = "enter the server"]
    /\ UNCHANGED <<scanVars, runVars, mk, stamp, http>>

\* getSFTPConfig: the five questions answered.  What is answered decides
\* only what the server does later, which the connection events choose.
AnswerConfig ==
    /\ inter.pc = "askConfig"
    /\ inter' = [inter EXCEPT !.pc = "transfer", !.said = "collecting"]
    /\ UNCHANGED <<scanVars, runVars, mk, stamp, http>>

\* transferFolderInfo up to the await of collectFolderInfo
InterScan ==
    /\ inter.pc = "transfer"
    /\ inter' = [inter EXCEPT !.pc = "scanned"]
    /\ UNCHANGED <<scanVars, runVars, mk, stamp, http>>

\* transferFolderInfo from JSON.stringify to conn.connect and its return,
\* and startTransfer up to the question that follows the await.  A failed
\* writeFileSync rejects inside the question callback and nothing handles
\* it.
InterSend ==
    /\ inter.pc = "scanned"
    /\ \E writeOk \in BOOLEAN :
          IF writeOk
          THEN inter' = [inter EXCEPT !.pc = "askAgain", !.said = "another folder?",
                                      !.runs = Append(@, NewRun)]
          ELSE inter' = [inter EXCEPT !.pc = "crashed"]
    /\ UNCHANGED <<scanVars, runVars, mk, stamp, http>>

\* the callback of the y/n question
AnswerAgain ==
    /\ inter.pc = "askAgain"
    /\ \E answer \in {"y", "n"} :
          IF answer = "y"
          THEN /\ Len(inter.runs) < MaxRuns
               /\ inter' = [inter EXCEPT !.pc = "askFolder", !.said = ""]
          ELSE inter' = [inter EXCEPT !.pc = "closed", !.said = "bye"]
    /\ UNCHANGED <<scanVars, runVars, mk, stamp, http>>

\* conn.end() of run i
EndRun(r) == IF r.conn \in {"connecting", "ready"} THEN "ending" ELSE r.conn

\* 'ready' of run i: conn.sftp is requested
InterReady(i) ==
    /\ Prompting
    /\ inter.runs[i].conn = "connecting"
    /\ inter' = [inter EXCEPT !.runs[i].conn = "ready", !.runs[i].sftp = "requested"]
    /\ UNCHANGED <<scanVars, runVars, mk, stamp, http>>

\* the callback of conn.sftp of run i
InterSftp(i) ==
    /\ Prompting
    /\ inter.runs[i].sftp = "requested"
    /\ \E ok \in BOOLEAN :
          IF ok /\ inter.runs[i].conn = "ready"
          THEN inter' = [inter EXCEPT !.runs[i].sftp = "open", !.runs[i].ws = "open"]
          ELSE inter' = [inter EXCEPT !.runs[i].sftp = "failed",
                                      !.runs[i].conn = EndRun(inter.runs[i])]
    /\ UNCHANGED <<scanVars, runVars, mk, stamp, http>>

\* 'error' of the write stream of run i
InterWsError(i) ==
    /\ Prompting
    /\ inter.runs[i].ws = "open"
    /\ inter' = [inter EXCEPT !.runs[i].ws = "errored",
                              !.runs[i].conn = EndRun(inter.runs[i])]
    /\ UNCHANGED <<scanVars, runVars, mk, stamp, http>>

\* 'close' of the write stream of run i: unlink, conn.end
InterWsClose(i) ==
    /\ Prompting
    /\ inter.runs[i].ws \in {"open", "errored"}
    /\ inter' = [inter EXCEPT !.runs[i].ws = "closed",
                              !.runs[i].file = "deleted",
                              !.runs[i].conn = EndRun(inter.runs[i])]
    /\ UNCHANGED <<scanVars, runVars, mk, stamp, http>>

\* 'error' of the connection of run i, which is logged; the socket closes
InterConnError(i) ==
    /\ Prompting
    /\ inter.runs[i].conn \in {"connecting", "ready"}
    /\ inter' = [inter EXCEPT !.runs[i].conn = "closed"]
    /\ UNCHANGED <<scanVars, runVars, mk, stamp, http>>

\* the connection of run i closes after conn.end
InterConnClose(i) ==
    /\ Prompting
    /\ inter.runs[i].conn = "ending"
    /\ inter' = [inter EXCEPT !.runs[i].conn = "closed"]
    /\ UNCHANGED <<scanVars, runVars, mk, stamp, http>>

NextInteractive ==
    \/ AnswerFolder
    \/ AnswerConfig
    \/ InterScan
    \/ InterSend
    \/ AnswerAgain
    \/ \E i \in 1..Len(inter.runs) :
          \/ InterReady(i)
          \/ InterSftp(i)
          \/ InterWsError(i)
          \/ InterWsClose(i)
          \/ InterConnError(i)
          \/ InterConnClose(i)

SpecInteractive == InitInteractive /\ [][NextInteractive]_vars

ConnOpen(r) == r.conn # "closed"
OpenRuns == {i \in 1..Len(inter.runs) : ConnOpen(inter.runs[i])}

\* C16: in the interactive program no scan, report write or connection of
\* a later run starts while the connection of an earlier run is open: when
\* a scan has been made no connection is open, and never are two open.
C16_OneRunAtATime ==
    /\ inter.pc = "scanned" => OpenRuns = {}
    /\ Cardinality(OpenRuns) <= 1

\* C16, the wait: when the await of transferFolderInfo is over, the upload
\* of that run has ended and its connection is closed.
C16_WaitCoversTeardown ==
    inter.pc = "askAgain" =>
        /\ ~ConnOpen(Last(inter.runs))
        /\ Last(inter.runs).ws \notin {"open"}
        /\ Last(inter.runs).sftp # "requested"

----------------------------------------------------------------------------
(* SpecStamp: the report filename.  An instant is a number of              *)
(* milliseconds after 2024-01-01T00:00:00.000Z, within that month; a       *)
(* string is the sequence of its characters.                               *)

\* cron_restart: minutes between two restarts
RestartMinutes == 5
\* the hours added to the clock for the filename of the config-driven script
KoreaOffsetHours == 9

MsPerMinute == 60 * 1000
MsPerHour == 60 * MsPerMinute
MsPerDay == 24 * MsPerHour

Digits == <<"0", "1", "2", "3", "4", "5", "6", "7", "8", "9">>
Digit(n) == Digits[n + 1]
Pad2(n) == <<Digit(n \div 10), Digit(n % 10)>>
Pad3(n) == <<Digit(n \div 100), Digit((n \div 10) % 10), Digit(n % 10)>>
Chars(str) ==
    CASE str = "2024-01-" -> <<"2", "0", "2", "4", "-", "0", "1", "-">>
      [] str = "busan-" -> <<"b", "u", "s", "a", "n", "-">>
      [] str = "folder-info-" ->
            <<"f", "o", "l", "d", "e", "r", "-", "i", "n", "f", "o", "-">>
      [] str = ".json" -> <<".", "j", "s", "o", "n">>

\* Date.prototype.toISOString: YYYY-MM-DDTHH:mm:ss.sssZ
toISOString(t) ==
    Chars("2024-01-") \o Pad2(1 + t \div MsPerDay) \o <<"T">>
    \o Pad2((t % MsPerDay) \div MsPerHour) \o <<":">>
    \o Pad2((t % MsPerHour) \div MsPerMinute) \o <<":">>
    \o Pad2((t % MsPerMinute) \div 1000) \o <<".">>
    \o Pad3(t % 1000) \o <<"Z">>

\* s.replace(a, b) with a string pattern: the first occurrence only
RECURSIVE ReplaceFirst(_, _, _)
ReplaceFirst(s, a, b) ==
    IF s = <<>> THEN <<>>
    ELSE IF Head(s) = a THEN <<b>> \o Tail(s)
    ELSE <<Head(s)>> \o ReplaceFirst(Tail(s), a, b)

\* s.replace(/[...]/g, b): every occurrence of a character of the class
ReplaceAll(s, class, b) == [i \in 1..Len(s) |-> IF s[i] \in class THEN b ELSE s[i]]

\* s.split('.')[0]
RECURSIVE BeforeDot(_)
BeforeDot(s) ==
    IF s = <<>> \/ Head(s) = "." THEN <<>> ELSE <<Head(s)>> \o BeforeDot(Tail(s))

\* s.slice(0, -n)
SliceEnd(s, n) == SubSeq(s, 1, Len(s) - n)

\* the timestamp of the config-driven script, cut after the hours
TimestampConfigHours(now) ==
    SliceEnd(BeforeDot(ReplaceAll(ReplaceFirst(
        toISOString(now + KoreaOffsetHours * MsPerHour), "T", "-"), {":"}, "-")), 6)

\* the timestamp of the config-driven script
TimestampConfig(now) ==
    SliceEnd(BeforeDot(ReplaceAll(ReplaceFirst(
        toISOString(now + KoreaOffsetHours * MsPerHour), "T", "-"), {":"}, "-")), 3)

\* the timestamp of the interactive script
TimestampInteractive(now) == ReplaceAll(toISOString(now), {":", "."}, "-")

FileNameConfig(now) == Chars("busan-") \o TimestampConfig(now) \o Chars(".json")
FileNameInteractive(now) ==
    Chars("folder-info-") \o TimestampInteractive(now) \o Chars(".json")

\* the instants at which a first run starts, and the time to the next run
StartTimes ==
    {0, 1, MsPerMinute - 1, MsPerHour - 1, 15 * MsPerHour - 1, MsPerDay - 1,
     MsPerDay - RestartMinutes * MsPerMinute, 10 * MsPerDay + 12345}
Gaps ==
    {1, 1000, MsPerMinute, RestartMinutes * MsPerMinute - 1,
     RestartMinutes * MsPerMinute, RestartMinutes * MsPerMinute + 1,
     MsPerHour, MsPerDay}

InitStamp ==
    /\ tree = MissingDir
    /\ scanner = Idle
    /\ result = NoResult
    /\ RunIdle
    /\ mk = MkIdle
    /\ inter = InterIdle
    /\ http = HttpIdle
    /\ \E t \in StartTimes, g \in Gaps :
          stamp = [program |-> "none", times |-> <<t, t + g>>, names |-> <<>>]

\* a run of the config-driven script computes its filename
StampConfig ==
    /\ stamp.program \in {"none", "config"}
    /\ Len(stamp.names) < Len(stamp.times)
    /\ stamp' = [stamp EXCEPT
                    !.program = "config",
                    !.names = Append(@, FileNameConfig(stamp.times[Len(@) + 1]))]
    /\ UNCHANGED <<scanVars, runVars, mk, inter, http>>

\* a run of the interactive script computes its filename
StampInteractive ==
    /\ stamp.program \in {"none", "interactive"}
    /\ Len(stamp.names) < Len(stamp.times)
    /\ stamp' = [stamp EXCEPT
                    !.program = "interactive",
                    !.names = Append(@, FileNameInteractive(stamp.times[Len(@) + 1]))]
    /\ UNCHANGED <<scanVars, runVars, mk, inter, http>>

NextStamp == StampConfig \/ StampInteractive

SpecStamp == InitStamp /\ [][NextStamp]_vars

\* characters a filename must not hold
ReservedChars == {":", "/", "\\", "<", ">", "|", "?", "*", "\""}

FileSystemSafe(name) == \A i \in 1..Len(name) : name[i] \notin ReservedChars

\* C17: a report filename holds no colon or other reserved character, and
\* the filenames of two runs of the same program started at least one
\* restart interval (5 minutes) apart differ.
C17_SafeAndDistinct ==
    /\ \A k \in 1..Len(stamp.names) : FileSystemSafe(stamp.names[k])
    /\ (Len(stamp.names) = 2
          /\ stamp.times[2] - stamp.times[1] >= RestartMinutes * MsPerMinute) =>
              stamp.names[1] # stamp.names[2]

\* two runs of the config-driven script exactly one restart interval apart,
\* the second in the next hour and on the next Korean day
C17_Witness ==
    /\ stamp.program = "config"
    /\ Len(stamp.names) = 2
    /\ stamp.times[1] = 15 * MsPerHour - 1
    /\ stamp.times[2] - stamp.times[1] = RestartMinutes * MsPerMinute
    /\ stamp.names[1] # stamp.names[2]

----------------------------------------------------------------------------
(* Optional values of config.json.                                         *)

\* what holds of every run whose config gives port and remotePath: it is
\* not refused by loadConfig, a granted sftp session starts the upload, and
\* the process dies of an uncaught exception only by a read stream error
RunsAsWithValues ==
    /\ pc # "exited"
    /\ sftp = "open" => (ws # "none" /\ Called("createWriteStream"))
    /\ pc = "crashed" => hist.rsErrored

\* C18: a config with every required value that omits sftp.port, or
\* sftp.remotePath, or both, is accepted and its run has the outcomes of a
\* run with port 22 and remotePath '' given.
C18_OmittedAsDefaults ==
    (~ConfigLacking(cfg) /\ (cfg.port = <<>> \/ cfg.remotePath = <<>>)) =>
        RunsAsWithValues

\* with both values given
C18_GivenValues ==
    (~ConfigLacking(cfg) /\ cfg.port # <<>> /\ cfg.remotePath # <<>>) =>
        RunsAsWithValues

\* with the port alone omitted
C18_PortOmitted ==
    (~ConfigLacking(cfg) /\ cfg.port = <<>> /\ cfg.remotePath # <<>>) =>
        RunsAsWithValues

C18_PortOmittedWitness ==
    /\ ~ConfigLacking(cfg)
    /\ cfg.port = <<>>
    /\ cfg.remotePath = <<"">>
    /\ hist.cleanClose
    /\ exitCode = <<0>>

----------------------------------------------------------------------------
(* latestFile against the aggregates of its node.                          *)

WithLatest == LatestMode(scanner.fn) # "none"

\* the entries of dir that the aggregation loop counted as regular files
CountedEntries(dir) ==
    {i \in 1..Len(dir.entries) : Counted(dir.entries[i], RESTRICTED_FOLDERS)}

LatestConsistent(node, dir) ==
    /\ node.latestFile # <<>> =>
          /\ \E i \in CountedEntries(dir) :
                dir.entries[i].name = node.latestFile[1].name
          /\ node.fileCount >= 1
          /\ node.latestFile[1].size <= node.size
    /\ CountedEntries(dir) # {} => node.latestFile # <<>>

\* C19: in every node collectFolderInfo returns, a latestFile that is
\* present names a file the scan of that directory counted (so fileCount is
\* at least 1 and latestFile.size at most size), and a directory with a
\* counted regular file has a latestFile.
C19_LatestConsistent ==
    (WithLatest /\ ~result.raised) =>
        \A p \in ResultPairs : LatestConsistent(p[1], p[2])

\* the entries for which the two passes agree: not a regular file with a
\* restricted name, and statable in both passes or in neither
PassesAgree(dir) ==
    \A i \in 1..Len(dir.entries) :
        /\ dir.entries[i].kind = "file" => dir.entries[i].name \notin RESTRICTED_FOLDERS
        /\ dir.entries[i].access \in {"ok", "failBoth"}

\* latestFile is consistent in the directories where the passes agree
C19_ConsistentWherePassesAgree ==
    (WithLatest /\ ~result.raised) =>
        \A p \in ResultPairs : PassesAgree(p[2]) => LatestConsistent(p[1], p[2])

C19_AgreeWitness ==
    /\ WithLatest
    /\ PassesAgree(tree)
    /\ result.info.latestFile # <<>>
    /\ Len(tree.entries) = 2
    /\ tree.entries[1].access = "failBoth"

----------------------------------------------------------------------------
(* FairSpec: a run whose pending callbacks and events are delivered.  The  *)
(* event loop runs every callback that is due, ssh2 reports a connection   *)
(* that does not come up as an error (readyTimeout), and a stream ends or  *)
(* fails; each step of a run moves it forward, so weak fairness of the     *)
(* next step is what the scheduling gives.                                 *)

FairSpec == Spec /\ WF_vars(Next)

ConnErrorBeforeReady == "conn" \in errs /\ ~hist.opened

TornDown == ConnErrorBeforeReady \/ Called("end")

\* C20: once conn.connect has been issued, a run that has come to its end
\* has reported a connection error before 'ready' or has called conn.end.
\* (Stated for the configs that give remotePath.)
C20_EndedRunTornDown ==
    (Called("connect") /\ ~Alive /\ cfg.remotePath # <<>>) => TornDown

\* C20 as a progress property: connect leads to the teardown
C20_ConnectLeadsToTeardown ==
    (Called("connect") /\ cfg.remotePath # <<>>) ~> TornDown

\* every run ends
C20_Terminates == <>(~Alive)

\* connect leads to the teardown or to the death of the process by an
\* uncaught exception
C20_TeardownUnlessCrashed == Called("connect") ~> (TornDown \/ pc = "crashed")

----------------------------------------------------------------------------
(* SpecApi: the GET handler of the folder-info route.  http.path is the    *)
(* 'path' query parameter: <<>> when the request has none, else <<value>>. *)

\* the sizes stat reports for a directory, tried by the route
ApiDirSizes == {0, 4096}
PathParams == {<<>>, <<"">>, <<"root">>}

\* formatSize: divide by 1024 while at least 1024 and a larger unit is
\* left, then toFixed(2).  The value is kept in hundredths of the unit.
Units == <<"B", "KB", "MB", "GB", "TB">>

RECURSIVE FormatLoop(_, _, _)
FormatLoop(bytes, divisor, unitIndex) ==
    IF bytes >= divisor * 1024 /\ unitIndex < Len(Units) - 1
    THEN FormatLoop(bytes, divisor * 1024, unitIndex + 1)
    ELSE [hundredths |-> (2 * 100 * bytes + divisor) \div (2 * divisor),
          unit |-> Units[unitIndex + 1]]

formatSize(bytes) == FormatLoop(bytes, 1, 0)

ErrorResponse(status) == [status |-> status, kind |-> "error"]

\* the handler with a slip: a scan that raised is answered like any other
GETResponseWithoutCatch(param, scan) ==
    IF param = <<>> \/ param = <<"">> THEN <<ErrorResponse(400)>>
    ELSE <<[status |-> 200, kind |-> "folderInfo", info |-> scan.info,
            formattedSize |-> formatSize(scan.info.size)]>>

\* what GET returns for the parameter and, when it scans, for what
\* getFolderInfo gave; NextResponse.json without a status answers 200
GETResponse(param, scan) ==
    IF param = <<>> \/ param = <<"">> THEN <<ErrorResponse(400)>>
    ELSE IF scan.raised THEN <<ErrorResponse(500)>>
    ELSE <<[status |-> 200, kind |-> "folderInfo", info |-> scan.info,
            formattedSize |-> formatSize(scan.info.size)]>>

InitApi ==
    /\ tree \in ScanTrees
    /\ scanner = Idle
    /\ result = NoResult
    /\ RunIdle
    /\ mk = MkIdle
    /\ inter = InterIdle
    /\ stamp = StampIdle
    /\ http \in {[HttpIdle EXCEPT !.path = p] : p \in PathParams}

\* GET: the parameter test, the awaited getFolderInfo and the response
GET ==
    /\ ~http.handled
    /\ IF http.path = <<>> \/ http.path = <<"">>
       THEN /\ http' = [http EXCEPT !.handled = TRUE,
                                    !.response = GETResponse(http.path, NoResult)]
            /\ UNCHANGED <<scanner, result>>
       ELSE \E ds \in ApiDirSizes :
               LET scan == getFolderInfo(tree, http.path, ds) IN
               /\ scanner' = [fn |-> "getFolderInfo", dsize |-> ds]
               /\ result' = scan
               /\ http' = [http EXCEPT !.handled = TRUE,
                                       !.response = GETResponse(http.path, scan)]
    /\ UNCHANGED <<tree, runVars, mk, inter, stamp>>

NextApi == GET

SpecApi == InitApi /\ [][NextApi]_vars

NoPathGiven == http.path = <<>> \/ http.path = <<"">>
RootScanRaises == ~tree.exists \/ ~tree.listable

\* C21: a handled request has a response; without a path (or with an empty
\* one) it is 400 and no scan was made; with a root that cannot be scanned
\* it is 500; in every other case, failures below the root included, it is
\* a success carrying the scanned tree and formattedSize.
C21_StatusMapping ==
    http.handled =>
        /\ http.response # <<>>
        /\ IF NoPathGiven
           THEN /\ http.response[1] = ErrorResponse(400)
                /\ scanner.fn = "none"
                /\ result.statted = {}
           ELSE IF RootScanRaises
           THEN http.response[1] = ErrorResponse(500)
           ELSE /\ http.response[1].status = 200
                /\ http.response[1].info = result.info
                /\ http.response[1].info.path = http.path
                /\ NodeAggregates([result.info EXCEPT !.size = @ - scanner.dsize],
                                  tree, RESTRICTED_FOLDERS_UTILS)
                /\ http.response[1].formattedSize = formatSize(result.info.size)

\* a success for a root with a subdirectory that cannot be listed
C21_Witness ==
    /\ http.handled
    /\ http.response # <<>>
    /\ http.response[1].status = 200
    /\ http.response[1].formattedSize.unit = "KB"
    /\ \E i \in 1..Len(tree.entries) :
          tree.entries[i].kind = "dir" /\ tree.entries[i].access = "ok"
          /\ ~tree.entries[i].dir.listable

============================================================================
